---- MODULE Spec2Model ----
(***************************************************************************)
(* Model of easyjailbreak/datasets/instance.py: the Instance record.       *)
(*                                                                         *)
(* Python objects that can be aliased (lists, the attack_attrs dict) live  *)
(* in a heap indexed by address; a field of a record holds an atom or a    *)
(* reference.  Instances are identified by the caller's variable that      *)
(* first bound them (Recs).  The _data dict of an Instance is the mapping  *)
(* data[x]; its insertion order is not modelled.                           *)
(*                                                                         *)
(* Inputs: fields are given None, strings, integers, and lists or dicts    *)
(* written as literals; lists hold atoms, the lineage lists hold records;  *)
(* _data is only ever rebound to a dict.  Strings are not iterated and     *)
(* records are not deep-copied (no record is stored outside the lineage    *)
(* lists).                                                                 *)
(*                                                                         *)
(* last records the latest call and what it returned or raised; ctorArgs,  *)
(* ctorId and copyOf record how each record came to be.  They are history  *)
(* variables: no operation reads them.                                     *)
(***************************************************************************)
EXTENDS Integers, Sequences, FiniteSets, TLC

VARIABLES heap, made, data, last, ctorArgs, ctorId, copyOf, steps

vars == <<heap, made, data, last, ctorArgs, ctorId, copyOf, steps>>

(* ---------------- bounds ---------------- *)
MaxObj == 36
MaxRec == 3
MaxListLen == 2

Addr == 1..MaxObj
Recs == 1..MaxRec

(* ---------------- python values ---------------- *)
None == [t |-> "none", v |-> 0]
S(s) == [t |-> "str", v |-> s]
I(n) == [t |-> "int", v |-> n]
Ref(a) == [t |-> "ref", v |-> a]
Inst(x) == [t |-> "inst", v |-> x]
Err(e) == [t |-> "err", v |-> e]

IsRef(v) == v.t = "ref"

FreeObj == [kind |-> "free", val |-> <<>>]
ListObj(s) == [kind |-> "list", val |-> s]
DictObj(m) == [kind |-> "dict", val |-> m]

EmptyMap == [n \in {} |-> None]

Put(d, n, v) == [k \in (DOMAIN d) \cup {n} |-> IF k = n THEN v ELSE d[k]]
Pop(d, n) == [k \in (DOMAIN d) \ {n} |-> d[k]]
Update(d, e) == [k \in (DOMAIN d) \cup (DOMAIN e) |-> IF k \in DOMAIN e THEN e[k] ELSE d[k]]

(* ---------------- heap ---------------- *)
Free(h) == {a \in Addr : h[a].kind = "free"}
Alloc(h) == CHOOSE a \in Free(h) : \A b \in Free(h) : a <= b
IsList(h, v) == IsRef(v) /\ h[v.v].kind = "list"
IsDict(h, v) == IsRef(v) /\ h[v.v].kind = "dict"

\* bool(v): None, "", 0, [] and {} are falsy
Truthy(h, v) ==
    CASE v.t = "none" -> FALSE
      [] v.t = "str" -> v.v # ""
      [] v.t = "int" -> v.v # 0
      [] v.t = "ref" -> IF h[v.v].kind = "list" THEN Len(h[v.v].val) > 0
                        ELSE DOMAIN h[v.v].val # {}
      [] OTHER -> TRUE

RefsOf(m) == {m[k].v : k \in {j \in DOMAIN m : IsRef(m[j])}}

\* objects no field of any record refers to are reclaimed (reference counting)
Live(d) == UNION {RefsOf(d[x]) : x \in Recs}
Collect(h, d) == LET live == Live(d) IN [a \in Addr |-> IF a \in live THEN h[a] ELSE FreeObj]

NewObj(h, obj) == LET a == Alloc(h) IN [h |-> [h EXCEPT ![a] = obj], v |-> Ref(a)]

\* a list or dict literal written by the caller becomes a fresh object
Lit(seq) == [t |-> "lit", v |-> seq]
DLit(m) == [t |-> "dlit", v |-> m]
Materialize(h, v) ==
    CASE v.t = "lit" -> NewObj(h, ListObj(v.v))
      [] v.t = "dlit" -> NewObj(h, DictObj(v.v))
      [] OTHER -> [h |-> h, v |-> v]

(* ---------------- Instance: fields ---------------- *)
ListFields == <<"reference_responses", "target_responses", "eval_results", "parents", "children">>
Methods == {"copy", "delete", "to_dict", "keys", "values", "items", "_generate_id"}
Properties == {"num_query", "num_jailbreak", "num_reject"}
DefaultAttackAttrs == [Mutation |-> None, query_class |-> None]

\* str() as used by the f-string of _generate_id
Str(v) == IF v.t = "none" THEN "None" ELSE v.v

\* hashlib.md5(...).hexdigest(): a deterministic, collision-free digest of the content
Md5(content) == S("md5:" \o content)

\* (mutant) a missing name reads as None instead of raising
GetAttrHookLenient(d, name) == IF name \in DOMAIN d THEN d[name] ELSE None

\* __getattr__(name): looked up in _data only
GetAttrHook(d, name) == IF name \in DOMAIN d THEN d[name] ELSE Err("AttributeError")

\* __setattr__(name, value): '_data' rebinds the storage, anything else is stored in it
SetAttr(d, name, value) == IF name = "_data" THEN value.v ELSE Put(d, name, value)

\* (mutant) the digest also covers the extra field
GenerateIdAll(d) ==
    IF "query" \in DOMAIN d /\ "jailbreak_prompt" \in DOMAIN d
    THEN Md5(Str(d["query"]) \o "|" \o Str(d["jailbreak_prompt"])
             \o (IF "extra" \in DOMAIN d THEN "|" \o Str(d["extra"]) ELSE ""))
    ELSE Err("AttributeError")

\* _generate_id(): self.query and self.jailbreak_prompt are read through __getattr__
GenerateId(d) ==
    IF "query" \in DOMAIN d /\ "jailbreak_prompt" \in DOMAIN d
    THEN Md5(Str(d["query"]) \o "|" \o Str(d["jailbreak_prompt"]))
    ELSE Err("AttributeError")

\* self.<name> = value or <fresh default>
SetOr(st, name, value, default) ==
    IF Truthy(st.h, value)
    THEN [h |-> st.h, d |-> SetAttr(st.d, name, value)]
    ELSE LET n == NewObj(st.h, default) IN [h |-> n.h, d |-> SetAttr(st.d, name, n.v)]

\* __init__(query=, jailbreak_prompt=, ..., **kwargs); a holds the arguments as values
InitRecord(h, a) ==
    LET s0 == [h |-> h, d |-> SetAttr(SetAttr(EmptyMap, "query", a.query),
                                       "jailbreak_prompt", a.jailbreak_prompt)]
        s1 == SetOr(s0, "reference_responses", a.reference_responses, ListObj(<<>>))
        s2 == SetOr(s1, "target_responses", a.target_responses, ListObj(<<>>))
        s3 == SetOr(s2, "eval_results", a.eval_results, ListObj(<<>>))
        s4 == SetOr(s3, "parents", a.parents, ListObj(<<>>))
        s5 == SetOr(s4, "children", a.children, ListObj(<<>>))
        s6 == [h |-> s5.h, d |-> SetAttr(s5.d, "index", None)]
        s7 == SetOr(s6, "attack_attrs", a.attack_attrs, DictObj(DefaultAttackAttrs))
        s8 == [h |-> s7.h, d |-> Update(s7.d, a.kwargs)]
    IN  [h |-> s8.h, d |-> SetAttr(s8.d, "id", GenerateId(s8.d))]

(* ---------------- copy.deepcopy ---------------- *)
\* one fresh object per object referred to, shared references staying shared (the memo)
RECURSIVE DeepCopyObjs(_, _, _)
DeepCopyObjs(h, todo, memo) ==
    IF todo = {} THEN [h |-> h, memo |-> memo]
    ELSE LET a == CHOOSE a \in todo : \A b \in todo : a <= b
             n == NewObj(h, h[a])
         IN  DeepCopyObjs(n.h, todo \ {a}, memo @@ (a :> n.v.v))

\* deepcopy of a dict whose values are atoms or references to containers of atoms
DeepCopyMap(h, m) ==
    LET c == DeepCopyObjs(h, RefsOf(m), <<>>)
    IN  [h |-> c.h,
         m |-> [k \in DOMAIN m |-> IF IsRef(m[k]) THEN Ref(c.memo[m[k].v]) ELSE m[k]]]

\* the value of a deep copy, independent of the heap: containers by content
DeepVal(h, v) == IF IsRef(v) THEN [t |-> h[v.v].kind, v |-> h[v.v].val] ELSE v

(* ---------------- Instance: properties and attribute lookup ---------------- *)
RECURSIVE SumSeq(_)
SumSeq(s) == IF s = <<>> THEN 0 ELSE Head(s).v + SumSeq(Tail(s))

AllInts(s) == \A i \in 1..Len(s) : s[i].t = "int"

\* len(v) and sum(v) of a field value
PyLen(h, v) == IF IsList(h, v) THEN I(Len(h[v.v].val))
               ELSE IF IsDict(h, v) THEN I(Cardinality(DOMAIN h[v.v].val))
               ELSE Err("TypeError")
PySum(h, v) == IF IsList(h, v) /\ AllInts(h[v.v].val) THEN I(SumSeq(h[v.v].val))
               ELSE Err("TypeError")

\* (mutant) the rejections counted as the evaluations
num_rejectAll(h, d) ==
    IF "eval_results" \in DOMAIN d THEN PyLen(h, d["eval_results"])
    ELSE GetAttrHook(d, "num_reject")

\* an AttributeError raised inside a property getter makes Python fall back to __getattr__
num_query(h, d) ==
    IF "target_responses" \in DOMAIN d THEN PyLen(h, d["target_responses"])
    ELSE GetAttrHook(d, "num_query")

num_jailbreak(h, d) ==
    IF "eval_results" \in DOMAIN d THEN PySum(h, d["eval_results"])
    ELSE GetAttrHook(d, "num_jailbreak")

num_reject(h, d) ==
    IF "eval_results" \in DOMAIN d
    THEN LET l == PyLen(h, d["eval_results"])
             m == PySum(h, d["eval_results"])
         IN  IF l.t = "int" /\ m.t = "int" THEN I(l.v - m.v) ELSE Err("TypeError")
    ELSE GetAttrHook(d, "num_reject")

\* r.name: the instance __dict__ and the class come first, __getattr__ is the fallback
AttrRead(h, d, name) ==
    CASE name = "_data" -> [t |-> "map", v |-> d]
      [] name = "num_query" -> num_query(h, d)
      [] name = "num_jailbreak" -> num_jailbreak(h, d)
      [] name = "num_reject" -> num_reject(h, d)
      [] name \in Methods -> [t |-> "method", v |-> name]
      [] OTHER -> GetAttrHook(d, name)

\* r[key]: __getitem__ calls __getattr__ directly
GetItem(d, key) == GetAttrHook(d, key)

\* r.keys()
keys(d) == DOMAIN d

(* ---------------- Instance: copy, delete, to_dict ---------------- *)
HasCopyFields(h, d) ==
    /\ {"query", "jailbreak_prompt", "attack_attrs"} \subseteq DOMAIN d
    /\ \A i \in 1..Len(ListFields) :
          ListFields[i] \in DOMAIN d /\ IsList(h, d[ListFields[i]])

\* what copy() raises when not HasCopyFields: the arguments are evaluated in order,
\* a missing field or a value without .copy() is an AttributeError, a lineage
\* field that cannot be iterated a TypeError
CopyError(h, d) ==
    LET order == <<"query", "jailbreak_prompt", "reference_responses", "target_responses",
                   "eval_results", "parents", "children", "attack_attrs">>
        bad(i) == \/ order[i] \notin DOMAIN d
                  \/ i \in 3..7 /\ ~IsList(h, d[order[i]])
        first == CHOOSE i \in 1..8 : bad(i) /\ \A j \in 1..(i - 1) : ~bad(j)
    IN  IF order[first] \in DOMAIN d /\ first \in {6, 7}
        THEN Err("TypeError") ELSE Err("AttributeError")

\* (mutant) the lineage lists are handed over instead of duplicated
copyShared(h, d) ==
    LET l1 == NewObj(h, h[d["reference_responses"].v])
        l2 == NewObj(l1.h, l1.h[d["target_responses"].v])
        l3 == NewObj(l2.h, l2.h[d["eval_results"].v])
        aa == DeepCopyMap(l3.h, [attack_attrs |-> d["attack_attrs"]])
        new == InitRecord(aa.h, [query |-> d["query"],
                                 jailbreak_prompt |-> d["jailbreak_prompt"],
                                 reference_responses |-> l1.v,
                                 target_responses |-> l2.v,
                                 eval_results |-> l3.v,
                                 parents |-> d["parents"],
                                 children |-> d["children"],
                                 attack_attrs |-> aa.m["attack_attrs"],
                                 kwargs |-> EmptyMap])
        rest_data == [k \in (DOMAIN d) \ (DOMAIN new.d) |-> d[k]]
        rest == DeepCopyMap(new.h, rest_data)
    IN  [h |-> rest.h, d |-> Update(new.d, rest.m)]

\* copy(): defined when HasCopyFields; otherwise the call raises
copy(h, d) ==
    LET l1 == NewObj(h, h[d["reference_responses"].v])
        l2 == NewObj(l1.h, l1.h[d["target_responses"].v])
        l3 == NewObj(l2.h, l2.h[d["eval_results"].v])
        l4 == NewObj(l3.h, l3.h[d["parents"].v])
        l5 == NewObj(l4.h, l4.h[d["children"].v])
        aa == DeepCopyMap(l5.h, [attack_attrs |-> d["attack_attrs"]])
        new == InitRecord(aa.h, [query |-> d["query"],
                                 jailbreak_prompt |-> d["jailbreak_prompt"],
                                 reference_responses |-> l1.v,
                                 target_responses |-> l2.v,
                                 eval_results |-> l3.v,
                                 parents |-> l4.v,
                                 children |-> l5.v,
                                 attack_attrs |-> aa.m["attack_attrs"],
                                 kwargs |-> EmptyMap])
        rest_data == [k \in (DOMAIN d) \ (DOMAIN new.d) |-> d[k]]
        rest == DeepCopyMap(new.h, rest_data)
    IN  [h |-> rest.h, d |-> Update(new.d, rest.m)]

\* (mutant) all keys are checked before any is removed
deleteAtomic(d, ks) ==
    IF \A i \in 1..Len(ks) : ks[i] \in DOMAIN d /\ \A j \in 1..(i - 1) : ks[j] # ks[i]
    THEN [d |-> [k \in (DOMAIN d) \ {ks[i] : i \in 1..Len(ks)} |-> d[k]], ret |-> None]
    ELSE [d |-> d, ret |-> Err("KeyError")]

\* delete(*keys): del self._data[key] for each key in turn, KeyError at the first missing one
RECURSIVE delete(_, _)
delete(d, ks) ==
    IF ks = <<>> THEN [d |-> d, ret |-> None]
    ELSE IF Head(ks) \in DOMAIN d THEN delete(Pop(d, Head(ks)), Tail(ks))
    ELSE [d |-> d, ret |-> Err("KeyError")]

\* (mutant) children are left in the snapshot
to_dictKeepsChildren(h, d) ==
    LET d2 == Pop(d, "parents")
    IN  [d |-> d, ret |-> [t |-> "map", v |-> [k \in DOMAIN d2 |-> DeepVal(h, d2[k])]]]

\* dict.pop(name, None)
PopOrNone(d, name) == IF name \in DOMAIN d THEN d[name] ELSE None

\* to_dict(): the storage it leaves behind, and the mapping it returns
to_dict(h, d) ==
    LET temp_parents == PopOrNone(d, "parents")
        d1 == Pop(d, "parents")
        temp_children == PopOrNone(d1, "children")
        d2 == Pop(d1, "children")
        temp_return == [k \in DOMAIN d2 |-> DeepVal(h, d2[k])]
        d3 == IF temp_parents # None THEN Put(d2, "parents", temp_parents) ELSE d2
        d4 == IF temp_children # None THEN Put(d3, "children", temp_children) ELSE d3
    IN  [d |-> d4, ret |-> [t |-> "map", v |-> temp_return]]

(* ---------------- the caller's operations on its records ---------------- *)
NoArgs == [query |-> None, jailbreak_prompt |-> None, reference_responses |-> None,
           target_responses |-> None, eval_results |-> None, parents |-> None,
           children |-> None, attack_attrs |-> None, kwargs |-> EmptyMap]

Obs(op, x, style, name, val, ks, ret, other) ==
    [op |-> op, rec |-> x, style |-> style, name |-> name, val |-> val, keys |-> ks,
     ret |-> ret, other |-> other]

Room == Cardinality(Free(heap)) >= 14

Commit(h, d, l) ==
    \E dd \in {d} :
        /\ data' = dd
        /\ heap' = Collect(h, dd)
        /\ last' = l
        /\ steps' = steps + 1

\* Instance(**a): list and dict arguments are literals of the caller
NewInstance(h, a) ==
    LET m1 == Materialize(h, a.reference_responses)
        m2 == Materialize(m1.h, a.target_responses)
        m3 == Materialize(m2.h, a.eval_results)
        m4 == Materialize(m3.h, a.parents)
        m5 == Materialize(m4.h, a.children)
        m6 == Materialize(m5.h, a.attack_attrs)
    IN  InitRecord(m6.h, [a EXCEPT !.reference_responses = m1.v,
                                   !.target_responses = m2.v,
                                   !.eval_results = m3.v,
                                   !.parents = m4.v,
                                   !.children = m5.v,
                                   !.attack_attrs = m6.v])

\* the caller binds a new record to its next unused variable
NextRec == CHOOSE x \in Recs : ~made[x] /\ \A y \in Recs : ~made[y] => x <= y

\* x = Instance(**a)
Construct(x, a) ==
    /\ ~made[x] /\ x = NextRec /\ Room
    /\ \E new \in {NewInstance(heap, a)} :
           /\ Commit(new.h, [data EXCEPT ![x] = new.d],
                     Obs("init", x, "", "", None, <<>>, None, 0))
           /\ made' = [made EXCEPT ![x] = TRUE]
           /\ ctorArgs' = [ctorArgs EXCEPT ![x] = <<a.query, a.jailbreak_prompt>>]
           /\ ctorId' = [ctorId EXCEPT ![x] = new.d["id"]]
           /\ copyOf' = copyOf

\* y = x.copy()
Copy(x, y) ==
    /\ made[x] /\ ~made[y] /\ y = NextRec /\ Room
    /\ IF HasCopyFields(heap, data[x])
       THEN \E new \in {copy(heap, data[x])} :
                /\ Commit(new.h, [data EXCEPT ![y] = new.d],
                          Obs("copy", x, "", "", None, <<>>, Inst(y), y))
                /\ made' = [made EXCEPT ![y] = TRUE]
                /\ ctorArgs' = [ctorArgs EXCEPT ![y] = <<data[x]["query"], data[x]["jailbreak_prompt"]>>]
                /\ ctorId' = [ctorId EXCEPT ![y] = new.d["id"]]
                /\ copyOf' = [copyOf EXCEPT ![y] = x]
       ELSE /\ Commit(heap, data, Obs("copy", x, "", "", None, <<>>, CopyError(heap, data[x]), 0))
            /\ UNCHANGED <<made, ctorArgs, ctorId, copyOf>>

\* x.name = v (style "attr") or x[name] = v (style "key"): both end in __setattr__
Write(x, style, name, v) ==
    /\ made[x] /\ Room
    /\ name = "_data" <=> v.t = "map"
    /\ \E m \in {Materialize(heap, v)} :
           Commit(m.h, [data EXCEPT ![x] = SetAttr(data[x], name, m.v)],
                  Obs("set", x, style, name, m.v, <<>>, None, 0))
    /\ UNCHANGED <<made, ctorArgs, ctorId, copyOf>>

\* x.name (style "attr") or x[name] (style "key")
Read(x, style, name) ==
    /\ made[x]
    /\ data' = data /\ heap' = heap /\ steps' = steps + 1
    /\ last' = Obs("get", x, style, name, None, <<>>,
                   IF style = "attr" THEN AttrRead(heap, data[x], name)
                   ELSE GetItem(data[x], name), 0)
    /\ UNCHANGED <<made, ctorArgs, ctorId, copyOf>>

\* x.delete(*ks)
Delete(x, ks) ==
    /\ made[x]
    /\ \E r \in {delete(data[x], ks)} :
           Commit(heap, [data EXCEPT ![x] = r.d],
                  Obs("delete", x, "", "", None, ks, r.ret, 0))
    /\ UNCHANGED <<made, ctorArgs, ctorId, copyOf>>

\* x.to_dict()
ToDict(x) ==
    /\ made[x]
    /\ \E r \in {to_dict(heap, data[x])} :
           Commit(heap, [data EXCEPT ![x] = r.d],
                  Obs("to_dict", x, "", "", None, <<>>, r.ret, 0))
    /\ UNCHANGED <<made, ctorArgs, ctorId, copyOf>>

\* x.keys()
Keys(x) ==
    /\ made[x]
    /\ data' = data /\ heap' = heap /\ steps' = steps + 1
    /\ last' = Obs("keys", x, "", "", None, <<>>, [t |-> "set", v |-> keys(data[x])], 0)
    /\ UNCHANGED <<made, ctorArgs, ctorId, copyOf>>

\* x.f.append(item), on a field that holds a list
ListAppend(x, f, item) ==
    /\ made[x]
    /\ f \in DOMAIN data[x] /\ IsList(heap, data[x][f])
    /\ Len(heap[data[x][f].v].val) < MaxListLen
    /\ heap' = [heap EXCEPT ![data[x][f].v].val = Append(@, item)]
    /\ data' = data /\ steps' = steps + 1
    /\ last' = Obs("append", x, "", f, item, <<>>, None, 0)
    /\ UNCHANGED <<made, ctorArgs, ctorId, copyOf>>

\* x.f.pop(), on a field that holds a non-empty list
PopLast(x, f) ==
    /\ made[x]
    /\ f \in DOMAIN data[x] /\ IsList(heap, data[x][f])
    /\ Len(heap[data[x][f].v].val) > 0
    /\ heap' = [heap EXCEPT ![data[x][f].v].val = SubSeq(@, 1, Len(@) - 1)]
    /\ data' = data /\ steps' = steps + 1
    /\ last' = Obs("pop", x, "", f, None, <<>>,
                   heap[data[x][f].v].val[Len(heap[data[x][f].v].val)], 0)
    /\ UNCHANGED <<made, ctorArgs, ctorId, copyOf>>

\* x.f[0] = item, on a field that holds a non-empty list
SetElem(x, f, item) ==
    /\ made[x]
    /\ f \in DOMAIN data[x] /\ IsList(heap, data[x][f])
    /\ Len(heap[data[x][f].v].val) > 0
    /\ heap' = [heap EXCEPT ![data[x][f].v].val[1] = item]
    /\ data' = data /\ steps' = steps + 1
    /\ last' = Obs("setelem", x, "", f, item, <<>>, None, 0)
    /\ UNCHANGED <<made, ctorArgs, ctorId, copyOf>>

\* x.f[k] = v, on a field that holds a dict (attack_attrs)
DictSet(x, f, k, v) ==
    /\ made[x]
    /\ f \in DOMAIN data[x] /\ IsDict(heap, data[x][f])
    /\ heap' = [heap EXCEPT ![data[x][f].v].val = Put(@, k, v)]
    /\ data' = data /\ steps' = steps + 1
    /\ last' = Obs("dictset", x, "", f, v, <<k>>, None, 0)
    /\ UNCHANGED <<made, ctorArgs, ctorId, copyOf>>

Init ==
    /\ heap = [a \in Addr |-> FreeObj]
    /\ made = [x \in Recs |-> FALSE]
    /\ data = [x \in Recs |-> EmptyMap]
    /\ last = Obs("none", 0, "", "", None, <<>>, None, 0)
    /\ ctorArgs = [x \in Recs |-> <<None, None>>]
    /\ ctorId = [x \in Recs |-> None]
    /\ copyOf = [x \in Recs |-> 0]
    /\ steps = 0

(* ======================================================================= *)
(* Field access: one record, written, read and deleted by name.            *)
(* ======================================================================= *)
MaxKeys == 3

AccessNames == {"query", "extra", "index", "keys", "num_query", "_data"}
AccessVals == {None, S("v"), I(1)}
MapArg == [t |-> "map", v |-> EmptyMap]
WriteVals(n) == IF n = "_data" THEN {MapArg} ELSE AccessVals
Styles == {"attr", "key"}
DelNames == {"query", "extra", "zz"}
KeySeqs == UNION {[1..n -> DelNames] : n \in 1..MaxKeys}

MaxAccessSteps == 3

ConstructAccess ==
    /\ steps < MaxAccessSteps
    /\ \E kw \in {EmptyMap, [extra |-> S("v")]} :
           Construct(1, [NoArgs EXCEPT !.query = S("a"), !.jailbreak_prompt = S("b"), !.kwargs = kw])
WriteAccess ==
    /\ steps < MaxAccessSteps
    /\ \E style \in Styles, n \in AccessNames : \E v \in WriteVals(n) : Write(1, style, n, v)
ReadAccess ==
    /\ steps < MaxAccessSteps
    /\ \E style \in Styles, n \in AccessNames \cup {"zz"} : Read(1, style, n)
DeleteAccess ==
    /\ steps < MaxAccessSteps
    /\ \E ks \in KeySeqs : Delete(1, ks)
KeysAccess ==
    /\ steps < MaxAccessSteps
    /\ Keys(1)

NextAccess ==
    \/ ConstructAccess
    \/ WriteAccess
    \/ ReadAccess
    \/ DeleteAccess
    \/ KeysAccess

SpecAccess == Init /\ [][NextAccess]_vars

Range(ks) == {ks[i] : i \in 1..Len(ks)}
Before(ks, i) == {ks[j] : j \in 1..(i - 1)}
\* position of the first key of ks that is not stored in d when its turn comes, 0 if none
FirstMissing(d, ks) ==
    LET bad == {i \in 1..Len(ks) : ks[i] \notin DOMAIN d \/ ks[i] \in Before(ks, i)}
    IN  IF bad = {} THEN 0 ELSE CHOOSE i \in bad : \A j \in bad : i <= j

\* C4: after writing n := v by either style, reading n by either style returns v,
\* n is in keys(), and no other stored field has changed -- for every name n,
\* names of class members and _data included.
C4_AccessUniform ==
    [][last'.op = "set" =>
        LET x == last'.rec
            n == last'.name
            v == last'.val
        IN  /\ AttrRead(heap', data'[x], n) = v
            /\ GetItem(data'[x], n) = v
            /\ n \in keys(data'[x])
            /\ \A k \in (DOMAIN data[x]) \ {n} : k \in DOMAIN data'[x] /\ data'[x][k] = data[x][k]
            /\ DOMAIN data'[x] \subseteq (DOMAIN data[x]) \cup {n}]_vars

\* names that the instance __dict__ or the class answers before __getattr__ is asked
ClassMembers == Methods \cup Properties \cup {"_data"}

\* C6 as stated: reading a name that is not stored fails with a not-found error by
\* either style and leaves the record unchanged; delete(k) of a stored k removes it,
\* after which reading k fails by either style and a second delete(k) fails with
\* KeyError.
C6_MissingFailsOriginal ==
    [][/\ (last'.op = "get" /\ last'.name \notin DOMAIN data[last'.rec])
            => (last'.ret = Err("AttributeError") /\ data' = data /\ heap' = heap)
       /\ (last'.op = "delete" /\ Len(last'.keys) = 1 /\ last'.keys[1] \in DOMAIN data[last'.rec])
            => LET x == last'.rec
                   k == last'.keys[1]
               IN  /\ last'.ret = None
                   /\ k \notin DOMAIN data'[x]
                   /\ AttrRead(heap', data'[x], k) = Err("AttributeError")
                   /\ GetItem(data'[x], k) = Err("AttributeError")
                   /\ delete(data'[x], <<k>>).ret = Err("KeyError")]_vars

\* C6 amended: the same, except that an attribute-style read of a name of a class
\* member (a method, a property or _data) is answered by the class and is not
\* required to fail; key-style reads fail for every name that is not stored.
C6_MissingFails ==
    [][/\ (/\ last'.op = "get" /\ last'.name \notin DOMAIN data[last'.rec]
           /\ (last'.style = "key" \/ last'.name \notin ClassMembers))
            => (last'.ret = Err("AttributeError") /\ data' = data /\ heap' = heap)
       /\ (last'.op = "delete" /\ Len(last'.keys) = 1 /\ last'.keys[1] \in DOMAIN data[last'.rec])
            => LET x == last'.rec
                   k == last'.keys[1]
               IN  /\ last'.ret = None
                   /\ k \notin DOMAIN data'[x]
                   /\ (k \notin ClassMembers => AttrRead(heap', data'[x], k) = Err("AttributeError"))
                   /\ GetItem(data'[x], k) = Err("AttributeError")
                   /\ delete(data'[x], <<k>>).ret = Err("KeyError")]_vars

\* query, stored by the constructor, was removed and an attribute-style read of it failed
C6_Witness ==
    /\ last.op = "get" /\ last.style = "attr" /\ last.name = "query"
    /\ "query" \notin DOMAIN data[1] /\ last.ret = Err("AttributeError")

DictRecs == {1, 2}
DictNames == {"parents", "children", "extra"}
DictVals == {None, S("v"), Lit(<<S("v")>>)}

MaxDictSteps == 4

ConstructDict ==
    /\ steps < MaxDictSteps
    /\ \E x \in DictRecs : Construct(x, [NoArgs EXCEPT !.query = S("a"), !.jailbreak_prompt = S("b")])
WriteDict ==
    /\ steps < MaxDictSteps
    /\ \E x \in DictRecs, style \in Styles, n \in DictNames, v \in DictVals : Write(x, style, n, v)
DeleteDict ==
    /\ steps < MaxDictSteps
    /\ \E x \in DictRecs, n \in DictNames : Delete(x, <<n>>)
LinkDict ==
    /\ steps < MaxDictSteps
    /\ \E x \in DictRecs, y \in DictRecs, f \in {"parents", "children"} : ListAppend(x, f, Inst(y))
ToDictDict ==
    /\ steps < MaxDictSteps
    /\ \E x \in DictRecs : ToDict(x)
CopyDict ==
    /\ steps < MaxDictSteps
    /\ \E x \in DictRecs, y \in Recs : Copy(x, y)

NextDict ==
    \/ CopyDict
    \/ ConstructDict
    \/ WriteDict
    \/ DeleteDict
    \/ LinkDict
    \/ ToDictDict

SpecDict == Init /\ [][NextDict]_vars

\* C2: to_dict() leaves the set of stored field names and every stored value as
\* they were before the call.
C2_ToDictPure ==
    [][last'.op = "to_dict" =>
        LET x == last'.rec
        IN  /\ DOMAIN data'[x] = DOMAIN data[x]
            /\ \A k \in DOMAIN data[x] : data'[x][k] = data[x][k]
            /\ heap' = heap]_vars

\* C3: the mapping returned by to_dict() has neither 'parents' nor 'children', has
\* every other stored field with an equal value, and a second to_dict() right after
\* the first returns an equal mapping.
C3_ToDictResult ==
    [][last'.op = "to_dict" =>
        LET x == last'.rec
            d == data[x]
            ret == last'.ret.v
        IN  /\ "parents" \notin DOMAIN ret /\ "children" \notin DOMAIN ret
            /\ DOMAIN ret = (DOMAIN d) \ {"parents", "children"}
            /\ \A k \in DOMAIN ret :
                  IF IsRef(d[k]) THEN ret[k].v = heap[d[k].v].val ELSE ret[k] = d[k]
            /\ (last.op = "to_dict" /\ last.rec = x) => last'.ret = last.ret]_vars

\* to_dict() of a record that has a parent and a list-valued extra field
C3_Witness ==
    /\ last.op = "to_dict"
    /\ "parents" \in DOMAIN data[last.rec] /\ IsList(heap, data[last.rec]["parents"])
    /\ Len(heap[data[last.rec]["parents"].v].val) > 0
    /\ "extra" \in DOMAIN last.ret.v /\ last.ret.v["extra"].t = "list"

(* ======================================================================= *)
(* Statistics: responses and evaluation flags appended and replaced.       *)
(* ======================================================================= *)
StatFields == {"target_responses", "eval_results"}
StatItems(f) == IF f = "eval_results" THEN {I(0), I(1)} ELSE {S("t")}
StatLits(f) == IF f = "eval_results" THEN {Lit(<<I(1), I(0)>>), Lit(<<I(0)>>)} ELSE {Lit(<<S("t")>>)}

MaxStatsSteps == 4

ConstructStats ==
    /\ steps < MaxStatsSteps
    /\ \E tr \in {None} \cup StatLits("target_responses"), er \in {None} \cup StatLits("eval_results") :
           Construct(1, [NoArgs EXCEPT !.query = S("a"), !.jailbreak_prompt = S("b"),
                                       !.target_responses = tr, !.eval_results = er])
AppendStats ==
    /\ steps < MaxStatsSteps
    /\ \E f \in StatFields : \E item \in StatItems(f) : ListAppend(1, f, item)
PopStats ==
    /\ steps < MaxStatsSteps
    /\ \E f \in StatFields : PopLast(1, f)
WriteStats ==
    /\ steps < MaxStatsSteps
    /\ \/ \E style \in Styles, f \in StatFields : \E v \in StatLits(f) : Write(1, style, f, v)
       \/ \E style \in Styles, n \in Properties : Write(1, style, n, I(7))
ReadStats ==
    /\ steps < MaxStatsSteps
    /\ \E n \in Properties : Read(1, "attr", n)

NextStats ==
    \/ ConstructStats
    \/ AppendStats
    \/ PopStats
    \/ WriteStats
    \/ ReadStats

SpecStats == Init /\ [][NextStats]_vars

Flags(h, d) == h[d["eval_results"].v].val
Ones(s) == Cardinality({i \in 1..Len(s) : s[i] = I(1)})
Zeros(s) == Cardinality({i \in 1..Len(s) : s[i] = I(0)})

QueryVals == {None, S("a")}
PromptVals == {S("a"), S("b")}
IdNames == {"query", "jailbreak_prompt", "id"}
IdVals == {None, S("b")}

MaxIdSteps == 3

ConstructId ==
    /\ steps < MaxIdSteps
    /\ \E x \in Recs, q \in QueryVals, p \in PromptVals :
       \E tr \in {None, Lit(<<S("t")>>)}, kw \in {EmptyMap, [extra |-> S("v")], [id |-> S("given")]} :
           Construct(x, [NoArgs EXCEPT !.query = q, !.jailbreak_prompt = p,
                                       !.target_responses = tr, !.kwargs = kw])
WriteId ==
    /\ steps < MaxIdSteps
    /\ \E x \in Recs, style \in Styles, n \in IdNames, v \in IdVals : Write(x, style, n, v)
CopyId ==
    /\ steps < MaxIdSteps
    /\ \E x \in Recs, y \in Recs : Copy(x, y)

NextId ==
    \/ ConstructId
    \/ WriteId
    \/ CopyId

SpecId == Init /\ [][NextId]_vars

\* C1: r.copy().id equals r.id, in every state r can reach by field writes.
C1_CopyKeepsId ==
    (last.op = "copy" /\ last.ret.t = "inst")
        => /\ "id" \in DOMAIN data[last.rec]
           /\ data[last.other]["id"] = data[last.rec]["id"]

\* C7: records constructed with the same query and the same jailbreak_prompt got the
\* same id at construction whatever else they were given, and a write to query or
\* jailbreak_prompt leaves the stored id as it is.
C7_IdFromQueryPrompt ==
    /\ [](\A x \in Recs, y \in Recs :
            (made[x] /\ made[y] /\ ctorArgs[x] = ctorArgs[y]) => ctorId[x] = ctorId[y])
    /\ [][(last'.op \in {"init", "copy"} /\ last'.ret.t # "err")
            => LET x == IF last'.op = "init" THEN last'.rec ELSE last'.other
               IN  data'[x]["id"] = ctorId'[x]]_vars
    /\ [][(last'.op = "set" /\ last'.name \in {"query", "jailbreak_prompt"})
            => LET x == last'.rec
               IN  ("id" \in DOMAIN data[x]) => ("id" \in DOMAIN data'[x] /\ data'[x]["id"] = data[x]["id"])]_vars

\* two records built from the same texts, one with an extra field and responses,
\* whose query was rewritten afterwards; the stored ids are still the same
C7_Witness ==
    \E x \in Recs, y \in Recs :
        /\ x # y /\ made[x] /\ made[y] /\ copyOf[x] = 0 /\ copyOf[y] = 0
        /\ ctorArgs[x] = ctorArgs[y]
        /\ "extra" \in DOMAIN data[x] /\ "extra" \notin DOMAIN data[y]
        /\ data[x]["query"] # ctorArgs[x][1]
        /\ data[x]["id"] = data[y]["id"]
        /\ last.op = "set" /\ last.name = "query" /\ last.rec = x

(* ======================================================================= *)
(* Copying: records with lineage, copied, then mutated through their       *)
(* containers.                                                             *)
(* ======================================================================= *)
CopyItems(f) ==
    CASE f \in {"parents", "children"} -> {Inst(x) : x \in {y \in Recs : made[y]}}
      [] f = "eval_results" -> {I(1)}
      [] OTHER -> {S("t")}

MaxCopySteps == 4

ConstructCopy ==
    /\ steps < MaxCopySteps
    /\ \E x \in Recs :
       \E rr \in {None, Lit(<<S("r")>>)}, pa \in {None} \cup {Lit(<<Inst(y)>>) : y \in {z \in Recs : made[z]}} :
           Construct(x, [NoArgs EXCEPT !.query = S("a"), !.jailbreak_prompt = S("b"),
                                       !.reference_responses = rr, !.parents = pa])
CopyCopy ==
    /\ steps < MaxCopySteps
    /\ \E x \in Recs, y \in Recs : Copy(x, y)
AppendCopy ==
    /\ steps < MaxCopySteps
    /\ \E x \in Recs, i \in 1..Len(ListFields) : \E item \in CopyItems(ListFields[i]) :
           ListAppend(x, ListFields[i], item)
PopCopy ==
    /\ steps < MaxCopySteps
    /\ \E x \in Recs, i \in 1..Len(ListFields) : PopLast(x, ListFields[i])
SetElemCopy ==
    /\ steps < MaxCopySteps
    /\ \E x \in Recs, i \in 1..Len(ListFields) : \E item \in CopyItems(ListFields[i]) :
           SetElem(x, ListFields[i], item)
AttrsCopy ==
    /\ steps < MaxCopySteps
    /\ \E x \in Recs : DictSet(x, "attack_attrs", "Mutation", S("m"))
WriteCopy ==
    /\ steps < MaxCopySteps
    /\ \/ \E x \in Recs, style \in Styles : Write(x, style, "index", I(1))
       \/ \E x \in Recs, style \in Styles : Write(x, style, "extra", Lit(<<S("v")>>))
ExtraCopy ==
    /\ steps < MaxCopySteps
    /\ \E x \in Recs : ListAppend(x, "extra", S("w"))

NextCopy ==
    \/ ConstructCopy
    \/ CopyCopy
    \/ AppendCopy
    \/ PopCopy
    \/ SetElemCopy
    \/ AttrsCopy
    \/ WriteCopy
    \/ ExtraCopy

SpecCopy == Init /\ [][NextCopy]_vars

Related(x, y) == x # y /\ made[x] /\ made[y] /\ (copyOf[x] = y \/ copyOf[y] = x)
Contents(h, d, f) == h[d[f].v].val

C9_CopyIsFullClone ==
    (last.op = "copy" /\ last.ret.t = "inst")
        => LET d == data[last.rec]
               c == data[last.other]
           IN  /\ DOMAIN c = DOMAIN d
               /\ \A k \in DOMAIN d : DeepVal(heap, c[k]) = DeepVal(heap, d[k])
               /\ \A k \in (DOMAIN d) \ Range(ListFields) : IsRef(d[k]) => c[k] # d[k]

====
